---- MODULE Spec2Model ----
(***************************************************************************)
(* Doculens: PDF question answering.  Model of the database-backed        *)
(* variant (src/app.py, src/db, src/utils) and of the service variant     *)
(* (src/src/document, src/src/vector_store).                              *)
(*                                                                         *)
(* Texts are modelled by the output of the text splitter: a sequence of   *)
(* chunk texts.  Embedding vectors have two non-negative integer          *)
(* components, enough to produce distinct, equal and tied cosine          *)
(* similarities.                                                           *)
(***************************************************************************)
EXTENDS Integers, Sequences, FiniteSets, TLC

(***************************************************************************)
(* Bounds of the model.                                                    *)
(***************************************************************************)
MaxDocuments == 2
MaxChunks == 2
MaxLimit == 2

\* Python's None where an id is expected; ids are SERIAL and start at 1.
None == 0

Min(a, b) == IF a <= b THEN a ELSE b

Range(s) == {s[i] : i \in 1..Len(s)}

SeqsUpTo(S, n) == UNION {[1..k -> S] : k \in 0..n}

(***************************************************************************)
(* Database state.                                                         *)
(***************************************************************************)
VARIABLES
    variant,            \* the part of the program a run exercises: "db" (upload and
                        \* search of app.py), "chat" (chat interface of app.py),
                        \* "service" (document service), "vector_store" (file index)
    connection_pool,    \* db/connection.py: TRUE when the pool was created
    documents,          \* table documents, in id order
    document_chunks,    \* table document_chunks, in id order
    chat_sessions,      \* table chat_sessions, in id order
    embedding_model,    \* utils/embedding.py _embedding_model: TRUE once created
    chunk_errors,       \* log of process_document: <<document id, i>> of failed chunks
    upload,             \* the "Process All Documents" handler of app.py
    processing,         \* the process_document call in progress
    session_state,      \* st.session_state of app.py
    search,             \* the search_document_chunks call in progress
    messages,           \* table messages, in id order
    chat,               \* the chat input handler of app.py
    document_cache,     \* the document_cache dict shared by get_pdf_text calls
    extract_count,      \* per file content, the extractions done for that cache
    extraction,         \* the last get_pdf_text call
    google_api_key,     \* TRUE when GOOGLE_API_KEY holds a usable key
    faiss_index,        \* the index saved at VECTOR_STORE_PATH
    vector_call,        \* the last get_vector_store or search_documents call
    store,              \* the files at VECTOR_STORE_PATH and the sessions that
                        \* save and load them concurrently
    rate,               \* helpers.check_rate_limits: the clock and api_call_history
    conns,              \* db/connection.py: the connections of the pool and the
                        \* execute_query calls in progress
    tags                \* documents.tags of one document and the tag calls in progress

dbVars == <<connection_pool, documents, document_chunks, chat_sessions, embedding_model, chunk_errors>>

appVars == <<upload, processing, session_state, search>>

chatVars == <<messages, chat>>

svcVars == <<document_cache, extract_count, extraction, google_api_key, faiss_index, vector_call,
             store, rate, conns, tags>>

(***************************************************************************)
(* The embedding capability: embed_query returns result['embedding'] of   *)
(* the external model, a deterministic function of the text.              *)
(***************************************************************************)
ChunkTexts == {"a", "b"}

Questions == {"a", "c"}

Embed(text) ==
    CASE text = "a" -> <<1, 0>>
      [] text = "b" -> <<0, 1>>
      [] OTHER -> <<1, 1>>

(***************************************************************************)
(* pgvector: 1 - (embedding <=> q) is the cosine similarity.  All vectors *)
(* of the model are non-zero with non-negative components, so the cosine  *)
(* is non-negative and is ordered as its square, Dot^2 / (|e|^2 |q|^2),   *)
(* compared here by cross multiplication.                                  *)
(***************************************************************************)
Dot(u, v) == u[1] * v[1] + u[2] * v[2]

CosNum(e, q) == Dot(e, q) * Dot(e, q)

CosDen(e, q) == Dot(e, e) * Dot(q, q)

SimLess(e1, e2, q) == CosNum(e1, q) * CosDen(e2, q) < CosNum(e2, q) * CosDen(e1, q)

SimEqual(e1, e2, q) == CosNum(e1, q) * CosDen(e2, q) = CosNum(e2, q) * CosDen(e1, q)

(***************************************************************************)
(* search_document_chunks: WHERE document_id = %s, ORDER BY similarity    *)
(* DESC, LIMIT %s.  The ORDER BY names no second key, so PostgreSQL may   *)
(* return rows of equal similarity in any order: the operator is the set  *)
(* of row sequences the statement can return.                             *)
(***************************************************************************)
ScopeRowsNoWhere(chunks, document_id) == chunks

ScopeRows(chunks, document_id) ==
    SelectSeq(chunks, LAMBDA r : r.document_id = document_id)

(* The first m rows of the rows numbered in rest, most similar first: at  *)
(* each place any row that no remaining row exceeds.                      *)
RECURSIVE SortedPrefixes(_, _, _, _)
SortedPrefixes(F, q, rest, m) ==
    IF m = 0 \/ rest = {}
    THEN {<<>>}
    ELSE LET top == {i \in rest :
                       \A j \in rest : ~SimLess(F[i].embedding, F[j].embedding, q)}
         IN  UNION {{<<F[i]>> \o s : s \in SortedPrefixes(F, q, rest \ {i}, m - 1)} : i \in top}

OrderByLimit(F, q, limit) == SortedPrefixes(F, q, 1..Len(F), limit)

search_posthoc_filter(chunks, document_id, q, limit) ==
    {ScopeRows(s, document_id) : s \in OrderByLimit(chunks, q, limit)}

search_document_chunks(chunks, document_id, q, limit) ==
    OrderByLimit(ScopeRows(chunks, document_id), q, limit)

(***************************************************************************)
(* save_document: INSERT ... RETURNING id.  execute_query returns None    *)
(* when no connection can be had (the pool was not created), and then     *)
(* save_document returns None; a database error is raised.                *)
(***************************************************************************)
DocumentRow(docs, title, text) ==
    [id |-> Len(docs) + 1, title |-> title, content |-> text]

(***************************************************************************)
(* One iteration of the chunk loop of process_document: embed_query, then *)
(* save_document_chunk.  An exception of either is caught, logged, and    *)
(* the loop goes on; chunk_order and chunk_index are enumerate's i, which *)
(* counts from 0.                                                          *)
(***************************************************************************)
ChunkRowCountsSaved(table, document_id, chunks, i, embedding) ==
    LET saved == Len(SelectSeq(table, LAMBDA r : r.document_id = document_id))
    IN  [id |-> Len(table) + 1,
         document_id |-> document_id,
         content |-> chunks[i],
         embedding |-> embedding,
         chunk_order |-> saved,
         chunk_metadata |-> [chunk_index |-> saved, total_chunks |-> Len(chunks)]]

ChunkRow(table, document_id, chunks, i, embedding) ==
    [id |-> Len(table) + 1,
     document_id |-> document_id,
     content |-> chunks[i],
     embedding |-> embedding,
     chunk_order |-> i - 1,
     chunk_metadata |-> [chunk_index |-> i - 1, total_chunks |-> Len(chunks)]]

ChunkOutcomes == {"ok", "embed_raise", "save_raise"}

ChunkStepIndexNull(table, document_id, chunks, i, out) ==
    IF out = "ok"
    THEN Append(table, ChunkRow(table, document_id, chunks, i, Embed(chunks[i])))
    ELSE IF out = "embed_raise"
    THEN Append(table, ChunkRow(table, document_id, chunks, i, <<0, 0>>))
    ELSE table

ChunkStepRollsBack(table, document_id, chunks, i, out) ==
    IF out = "ok"
    THEN Append(table, ChunkRow(table, document_id, chunks, i, Embed(chunks[i])))
    ELSE SelectSeq(table, LAMBDA r : r.document_id # document_id)

ChunkStep(table, document_id, chunks, i, out) ==
    IF out = "ok"
    THEN Append(table, ChunkRow(table, document_id, chunks, i, Embed(chunks[i])))
    ELSE table

RECURSIVE ChunkLoop(_, _, _, _, _)
ChunkLoop(table, document_id, chunks, outs, i) ==
    IF i > Len(chunks)
    THEN table
    ELSE ChunkLoop(ChunkStep(table, document_id, chunks, i, outs[i]),
                   document_id, chunks, outs, i + 1)

ChunkLoopErrors(document_id, outs) ==
    {<<document_id, i - 1>> : i \in {k \in 1..Len(outs) : outs[k] # "ok"}}

(***************************************************************************)
(* extract_text_from_pdf(pdf_path): the pages' texts, or an exception     *)
(* for a file PyPDF2 cannot read.  A readable file is modelled by the     *)
(* chunks the splitter makes of its text.                                  *)
(***************************************************************************)
Texts == SeqsUpTo(ChunkTexts, MaxChunks)

PDFs == {[readable |-> TRUE, text |-> t] : t \in Texts}
            \cup {[readable |-> FALSE, text |-> <<>>]}

extract_text_from_pdf(pdf) == pdf.text

split_text(text) == [i \in 1..Len(text) |-> text[i]]

(***************************************************************************)
(* The service variant, src/src/document/document_service.py.  An         *)
(* uploaded file: its bytes (named by a number), its size in MB and its   *)
(* pages; "#" is a page whose extract_text raises.                         *)
(***************************************************************************)
MAX_PDF_SIZE_MB == 100

MAX_PDF_COUNT == 10

MaxBatch == 3

PdfFiles ==
    {[bytes |-> 1, size_mb |-> 1, pages |-> <<"x">>],
     [bytes |-> 2, size_mb |-> 2, pages |-> <<"y", "z">>],
     [bytes |-> 3, size_mb |-> 1, pages |-> <<"w", "#">>],
     [bytes |-> 4, size_mb |-> 101, pages |-> <<"v">>]}

TooManyFiles == [i \in 1..(MAX_PDF_COUNT + 1) |-> [bytes |-> 1, size_mb |-> 1, pages |-> <<"x">>]]

Batches == SeqsUpTo(PdfFiles, MaxBatch) \cup {TooManyFiles}

compute_document_hash(file_content) == <<"md5", file_content>>

EmptyCache == <<>>

CachePut(cache, key, value) ==
    [k \in DOMAIN cache \cup {key} |-> IF k = key THEN value ELSE cache[k]]

(***************************************************************************)
(* The page loop (document_service.py:83-91): doc_text grows page by      *)
(* page; a page that raises ends it with the text read so far.            *)
(***************************************************************************)
RECURSIVE PageLoop(_, _, _)
PageLoop(pages, i, doc_text) ==
    IF i > Len(pages)
    THEN [raised |-> FALSE, doc_text |-> doc_text]
    ELSE IF pages[i] = "#"
    THEN [raised |-> TRUE, doc_text |-> doc_text]
    ELSE PageLoop(pages, i + 1, Append(doc_text, pages[i]))

(***************************************************************************)
(* One document of the loop of get_pdf_text (document_service.py:61-104). *)
(* st holds the locals text, docs_processed, bytes_processed, cache_hits  *)
(* and the cache; hits and extracted record the positions that took the   *)
(* cache-hit branch and those extracted.  The except branch logs and goes *)
(* on, so raised stays FALSE.                                              *)
(***************************************************************************)
PdfDocMiss(st, doc, i, doc_text) ==
    [st EXCEPT !.bytes_processed = @ + doc.size_mb,
               !.docs_processed = @ + 1,
               !.cache = CachePut(@, compute_document_hash(doc.bytes), doc_text),
               !.text = @ \o doc_text,
               !.extracted = @ \cup {i}]

PdfDocHit(st, doc, i) ==
    [st EXCEPT !.text = @ \o st.cache[compute_document_hash(doc.bytes)],
               !.cache_hits = @ + 1,
               !.hits = @ \cup {i}]

PdfDocStepNoStore(st, doc, i) ==
    IF doc.size_mb > MAX_PDF_SIZE_MB
    THEN st
    ELSE IF DOMAIN st.cache # {} /\ compute_document_hash(doc.bytes) \in DOMAIN st.cache
    THEN PdfDocHit(st, doc, i)
    ELSE LET read == PageLoop(doc.pages, 1, <<>>)
         IN  IF read.raised THEN st
             ELSE [PdfDocMiss(st, doc, i, read.doc_text) EXCEPT !.cache = st.cache]

PdfDocStepHitOmitsText(st, doc, i) ==
    IF doc.size_mb > MAX_PDF_SIZE_MB
    THEN st
    ELSE IF DOMAIN st.cache # {} /\ compute_document_hash(doc.bytes) \in DOMAIN st.cache
    THEN [PdfDocHit(st, doc, i) EXCEPT !.text = st.text]
    ELSE LET read == PageLoop(doc.pages, 1, <<>>)
         IN  IF read.raised THEN st ELSE PdfDocMiss(st, doc, i, read.doc_text)

PdfDocStepKeepsPartial(st, doc, i) ==
    IF doc.size_mb > MAX_PDF_SIZE_MB
    THEN st
    ELSE IF DOMAIN st.cache # {} /\ compute_document_hash(doc.bytes) \in DOMAIN st.cache
    THEN PdfDocHit(st, doc, i)
    ELSE LET read == PageLoop(doc.pages, 1, <<>>)
         IN  IF read.raised THEN [st EXCEPT !.text = @ \o read.doc_text]
             ELSE PdfDocMiss(st, doc, i, read.doc_text)

PdfDocStep(st, doc, i) ==
    IF doc.size_mb > MAX_PDF_SIZE_MB
    THEN st
    ELSE IF DOMAIN st.cache # {} /\ compute_document_hash(doc.bytes) \in DOMAIN st.cache
    THEN PdfDocHit(st, doc, i)
    ELSE LET read == PageLoop(doc.pages, 1, <<>>)
         IN  IF read.raised THEN st ELSE PdfDocMiss(st, doc, i, read.doc_text)

RECURSIVE PdfDocLoop(_, _, _)
PdfDocLoop(st, pdf_docs, i) ==
    IF i > Len(pdf_docs) \/ st.raised
    THEN st
    ELSE PdfDocLoop(PdfDocStep(st, pdf_docs[i], i), pdf_docs, i + 1)

(***************************************************************************)
(* get_pdf_text(pdf_docs, document_cache): None for more than             *)
(* MAX_PDF_COUNT documents, else the text of the loop, with the metrics   *)
(* it logs.                                                                *)
(***************************************************************************)
get_pdf_text(pdf_docs, cache) ==
    LET st0 == [text |-> <<>>, docs_processed |-> 0, bytes_processed |-> 0,
                cache_hits |-> 0, cache |-> cache, hits |-> {}, extracted |-> {},
                raised |-> FALSE]
    IN  IF Len(pdf_docs) > MAX_PDF_COUNT
        THEN [st0 EXCEPT !.raised = FALSE] @@ [returned_none |-> TRUE, documents_skipped |-> 0]
        ELSE LET st == PdfDocLoop(st0, pdf_docs, 1)
             IN  st @@ [returned_none |-> FALSE,
                        documents_skipped |-> Len(pdf_docs) - st.docs_processed]

ExtractCounted(counts, pdf_docs, extracted) ==
    [b \in DOMAIN counts |->
        Min(2, counts[b] + Cardinality({i \in extracted : pdf_docs[i].bytes = b}))]

(***************************************************************************)
(* A call of get_pdf_text: with the shared cache, or with                 *)
(* document_cache=None, which makes a cache of the call's own.            *)
(***************************************************************************)
GetPdfText ==
    /\ variant = "service"
    /\ \E pdf_docs \in Batches, shared \in BOOLEAN :
         \E r \in {get_pdf_text(pdf_docs, IF shared THEN document_cache ELSE EmptyCache)} :
             /\ document_cache' = IF shared THEN r.cache ELSE document_cache
             /\ extract_count' = IF shared
                                 THEN ExtractCounted(extract_count, pdf_docs, r.extracted)
                                 ELSE extract_count
             /\ extraction' = [pc |-> IF r.raised THEN "raised" ELSE "returned",
                               pdf_docs |-> pdf_docs,
                               shared |-> shared,
                               cache_before |-> IF shared THEN DOMAIN document_cache ELSE {},
                               cache_after |-> DOMAIN r.cache,
                               returned_none |-> r.returned_none,
                               text |-> r.text,
                               documents_processed |-> r.docs_processed,
                               documents_skipped |-> r.documents_skipped,
                               cache_hits |-> r.cache_hits,
                               hits |-> r.hits,
                               extracted |-> r.extracted]
    /\ UNCHANGED <<variant, dbVars, appVars, chatVars, google_api_key, faiss_index, vector_call,
                   store, rate, conns, tags>>

(***************************************************************************)
(* The directory VECTOR_STORE_PATH (settings.py:38-47): made empty at     *)
(* import, later holding index.faiss (the vectors) and index.pkl (the     *)
(* texts) that save_local writes one after the other; and the sessions    *)
(* of the application, each a thread that may call get_vector_store or    *)
(* search_documents.                                                       *)
(***************************************************************************)
Sessions == {1, 2}

(* The connections of the ThreadedConnectionPool (connection.py:27-42).   *)
PoolConnections == {1, 2}

(* The threads that call execute_query, one more than the pool has        *)
(* connections.                                                            *)
Threads == {1, 2, 3}

NoQuery == [pc |-> "idle", conn |-> 0, result |-> "none", ended |-> "none", putconn |-> 0]

NoTagCall == [op |-> "none", tag_name |-> "", current_tags |-> <<>>]

NoFile == [state |-> "absent", data |-> <<>>]

NoResult == [op |-> "none", returned |-> "none", docs |-> <<>>, cause |-> "none",
             had_index |-> FALSE, consistent |-> TRUE]

NoLocal == [texts |-> <<>>, faiss |-> <<>>, pkl |-> <<>>, question |-> "", had_index |-> FALSE]

StoreInit ==
    [index_faiss |-> NoFile, index_pkl |-> NoFile,
     pc |-> [s \in Sessions |-> "idle"],
     local |-> [s \in Sessions |-> NoLocal],
     last |-> [s \in Sessions |-> NoResult],
     rebuilds |-> 0]

ServiceInit ==
    /\ store = StoreInit
    /\ rate = [now |-> 0, api_call_history |-> <<>>, calls |-> <<>>]
    /\ conns = [used |-> {}, open |-> {}, closed |-> {}, call |-> [t \in Threads |-> NoQuery]]
    /\ tags = [stored |-> <<>>, pc |-> [s \in Sessions |-> "idle"],
               local |-> [s \in Sessions |-> NoTagCall],
               last |-> [s \in Sessions |-> "none"], calls |-> 0]
    /\ document_cache = EmptyCache
    /\ extract_count = [b \in {f.bytes : f \in PdfFiles} |-> 0]
    /\ extraction = [pc |-> "idle"]
    /\ faiss_index = [built |-> FALSE, docs |-> <<>>]
    /\ vector_call = [pc |-> "idle"]

ChatInit ==
    /\ messages = <<>>
    /\ chat = [pc |-> "idle", asked |-> 0]

(***************************************************************************)
(* Initial state: the pool was created or not (db/connection.py:24-46),   *)
(* the tables are empty, no model is loaded, st.session_state as app.py   *)
(* initialises it (with a user logged in).                                 *)
(***************************************************************************)
DbInit ==
    /\ connection_pool \in BOOLEAN
    /\ documents = <<>>
    /\ document_chunks = <<>>
    /\ chat_sessions = <<>>
    /\ embedding_model = FALSE
    /\ chunk_errors = {}

NoCall == [pc |-> "idle"]

SessionInit ==
    [current_document_id |-> None,
     current_chat_session_id |-> None,
     messages |-> <<>>,
     document_loaded |-> FALSE,
     selected_documents |-> <<>>,
     is_batch_session |-> FALSE]

AppInit ==
    /\ upload = NoCall
    /\ processing = NoCall
    /\ search = NoCall
    /\ session_state = SessionInit

vars == <<variant, dbVars, appVars, chatVars, svcVars>>

Idle == upload.pc \in {"idle", "done"} /\ processing.pc = "idle" /\ search.pc = "idle"

(***************************************************************************)
(* "Process All Documents" (app.py:105-108): the button, with n uploaded  *)
(* files.  The files' contents are drawn when the loop reaches them.      *)
(***************************************************************************)
ClickProcessAll ==
    /\ variant = "db"
    /\ Idle
    /\ \E n \in 1..(MaxDocuments - Len(documents)) :
         upload' = [pc |-> "loop", n |-> n, i |-> 1, processed_count |-> 0,
                    last_document_id |-> None, errors |-> {},
                    returned_ids |-> {}, before |-> Len(documents),
                    tmp_files |-> {}]
    /\ UNCHANGED <<variant, chatVars, svcVars, dbVars, processing, session_state, search>>

(***************************************************************************)
(* The temporary file of the file at hand (app.py:116-120), created with  *)
(* delete=False; tmp_files are the temporary files that exist.            *)
(***************************************************************************)
NamedTemporaryFile(u) == [u EXCEPT !.tmp_files = @ \cup {u.i}]

(***************************************************************************)
(* The except branch of the loop (app.py:155-160): the file is reported   *)
(* and the loop goes to the next file.                                     *)
(***************************************************************************)
FileFailed(u) == [u EXCEPT !.errors = @ \cup {u.i}, !.i = @ + 1]

(***************************************************************************)
(* The rest of the try block after process_document returned document_id  *)
(* (app.py:143-153), with os.unlink(tmp_file_path).  returned_ids records *)
(* the document ids process_document returned.                            *)
(***************************************************************************)
FileProcessed(u, document_id) ==
    [u EXCEPT !.last_document_id = document_id,
              !.processed_count = @ + 1,
              !.returned_ids = IF document_id # None THEN @ \cup {document_id} ELSE @,
              !.tmp_files = @ \ {u.i},
              !.i = @ + 1]

(***************************************************************************)
(* One file of the loop up to the chunk loop of process_document          *)
(* (app.py:110-141, document_processor.py:35-59): the temporary file,     *)
(* extract_text_from_pdf, save_document, the splitter and                 *)
(* get_embedding_model.  Without a connection execute_query returns None, *)
(* save_document returns None and process_document returns None           *)
(* ("Failed to save document"); a database error and a failure to create  *)
(* the embedding model are raised to the loop.                             *)
(***************************************************************************)
UploadFile ==
    /\ variant = "db"
    /\ upload.pc = "loop"
    /\ upload.i <= upload.n
    /\ processing.pc = "idle"
    /\ \E pdf \in PDFs, save \in {"ok", "raise"}, model \in {"ok", "raise"} :
         IF ~pdf.readable
         THEN /\ upload' = FileFailed(NamedTemporaryFile(upload))
              /\ UNCHANGED <<dbVars, processing>>
         ELSE IF ~connection_pool
         THEN /\ upload' = FileProcessed(NamedTemporaryFile(upload), None)
              /\ UNCHANGED <<dbVars, processing>>
         ELSE IF save = "raise"
         THEN /\ upload' = FileFailed(NamedTemporaryFile(upload))
              /\ UNCHANGED <<dbVars, processing>>
         ELSE /\ documents' = Append(documents,
                    DocumentRow(documents, "t", extract_text_from_pdf(pdf)))
              /\ IF ~embedding_model /\ model = "raise"
                 THEN /\ upload' = FileFailed(NamedTemporaryFile(upload))
                      /\ UNCHANGED <<embedding_model, processing>>
                 ELSE /\ embedding_model' = TRUE
                      /\ processing' = [pc |-> "chunks",
                                        document_id |-> Len(documents) + 1,
                                        chunks |-> split_text(extract_text_from_pdf(pdf)),
                                        i |-> 1, last_out |-> "none", embed_calls |-> 0]
                      /\ upload' = NamedTemporaryFile(upload)
              /\ UNCHANGED <<connection_pool, document_chunks, chat_sessions, chunk_errors>>
    /\ UNCHANGED <<variant, chatVars, svcVars, session_state, search>>

(***************************************************************************)
(* One iteration of the chunk loop (document_processor.py:62-85).         *)
(* embed_query is called once (line 65) and calls genai.embed_content     *)
(* once (embedding.py:50), whatever the call does.                         *)
(***************************************************************************)
embed_query_calls(out) == 1

ProcessChunk ==
    /\ processing.pc = "chunks"
    /\ processing.i <= Len(processing.chunks)
    /\ \E out \in ChunkOutcomes :
         /\ document_chunks' = ChunkStep(document_chunks, processing.document_id,
                                         processing.chunks, processing.i, out)
         /\ chunk_errors' = IF out = "ok" THEN chunk_errors
                            ELSE chunk_errors \cup
                                   {<<processing.document_id, processing.i - 1>>}
         /\ processing' = [processing EXCEPT !.i = @ + 1,
                                             !.last_out = out,
                                             !.embed_calls = embed_query_calls(out)]
    /\ UNCHANGED <<variant, chatVars, svcVars, connection_pool, documents, chat_sessions, embedding_model,
                   upload, session_state, search>>

(***************************************************************************)
(* process_document returns document_id (document_processor.py:87-88)     *)
(* and the loop finishes the file (app.py:143-153).                        *)
(***************************************************************************)
UploadFileEnd ==
    /\ processing.pc = "chunks"
    /\ processing.i > Len(processing.chunks)
    /\ upload' = FileProcessed(upload, processing.document_id)
    /\ processing' = NoCall
    /\ UNCHANGED <<variant, chatVars, svcVars, dbVars, session_state, search>>

(***************************************************************************)
(* After the loop (app.py:162-193): the summary, and a chat session for   *)
(* the last document.  create_chat_session may raise; the handler does    *)
(* not catch it.                                                           *)
(***************************************************************************)
ChatSessionRow(table, document_id) ==
    [id |-> Len(table) + 1, document_id |-> document_id]

AfterLoop ==
    /\ variant = "db"
    /\ upload.pc = "loop"
    /\ upload.i > upload.n
    /\ processing.pc = "idle"
    /\ upload' = [upload EXCEPT !.pc = "done"]
    /\ IF upload.processed_count > 0 /\ upload.last_document_id # None
       THEN \E create \in {"ok", "raise"} :
              IF create = "ok"
              THEN /\ chat_sessions' = Append(chat_sessions,
                          ChatSessionRow(chat_sessions, upload.last_document_id))
                   /\ session_state' = [session_state EXCEPT
                          !.current_document_id = upload.last_document_id,
                          !.document_loaded = TRUE,
                          !.current_chat_session_id = Len(chat_sessions) + 1,
                          !.messages = <<>>]
              ELSE /\ session_state' = [session_state EXCEPT
                          !.current_document_id = upload.last_document_id,
                          !.document_loaded = TRUE]
                   /\ UNCHANGED chat_sessions
       ELSE UNCHANGED <<chat_sessions, session_state>>
    /\ UNCHANGED <<variant, chatVars, svcVars, connection_pool, documents, document_chunks, embedding_model,
                   chunk_errors, processing, search>>

(***************************************************************************)
(* A call of search_document_chunks(document_id, query_embedding, limit). *)
(* Without a connection execute_query returns None and the function       *)
(* returns []; a database error is raised to the caller.  The application *)
(* calls it with limit 5.                                                  *)
(***************************************************************************)
SingleLimit == 5

Limits == (1..MaxLimit) \cup {SingleLimit}

QueryVectors == {Embed(t) : t \in Questions}

SearchReturns(pool, chunks, document_id, q, limit) ==
    IF pool THEN search_document_chunks(chunks, document_id, q, limit) ELSE {<<>>}

SearchDocumentChunks ==
    /\ variant = "db"
    /\ Idle
    /\ \E document_id \in 1..MaxDocuments, q \in QueryVectors, limit \in Limits :
         \/ \E rows \in SearchReturns(connection_pool, document_chunks, document_id, q, limit) :
               search' = [pc |-> "returned", document_id |-> document_id,
                          query |-> q, limit |-> limit, rows |-> rows]
         \/ /\ connection_pool
            /\ search' = [pc |-> "raised", document_id |-> document_id,
                          query |-> q, limit |-> limit, rows |-> <<>>]
    /\ UNCHANGED <<variant, chatVars, svcVars, dbVars, upload, processing, session_state>>

(***************************************************************************)
(* The caller takes the result.                                            *)
(***************************************************************************)
SearchDone ==
    /\ search.pc # "idle"
    /\ search' = NoCall
    /\ UNCHANGED <<variant, chatVars, svcVars, dbVars, upload, processing, session_state>>

Init == variant = "db" /\ DbInit /\ AppInit /\ ChatInit /\ ServiceInit /\ google_api_key = TRUE

Next ==
    \/ ClickProcessAll
    \/ UploadFile
    \/ ProcessChunk
    \/ UploadFileEnd
    \/ AfterLoop
    \/ SearchDocumentChunks
    \/ SearchDone

Spec == Init /\ [][Next]_vars

(***************************************************************************)
(* Properties of search_document_chunks and of the upload pipeline.        *)
(***************************************************************************)
ChunksOf(document_id) ==
    {r \in Range(document_chunks) : r.document_id = document_id}

\* C1: search_document_chunks(document_id = A, ...) never returns a chunk whose
\* document_id is not A, whatever the query vector and the limit.
C1_ScopeIsolation ==
    search.pc = "returned" =>
        \A i \in 1..Len(search.rows) : search.rows[i].document_id = search.document_id

\* A search returned chunks of its document while another document, with chunks
\* of its own, is persisted.
C1_Witness ==
    /\ search.pc = "returned"
    /\ Len(search.rows) > 0
    /\ \E r \in Range(document_chunks) : r.document_id # search.document_id

\* C2: at most limit rows, highest similarity first, and rows of equal
\* similarity in insertion order (the lower id first).
C2_StableTieBreak ==
    search.pc = "returned" =>
        /\ Len(search.rows) <= search.limit
        /\ \A i, j \in 1..Len(search.rows) :
              i < j =>
                /\ ~SimLess(search.rows[i].embedding, search.rows[j].embedding,
                            search.query)
                /\ SimEqual(search.rows[i].embedding, search.rows[j].embedding,
                            search.query)
                      => search.rows[i].id < search.rows[j].id

C10_NoNullVectorIndexed ==
    /\ \A r \in Range(document_chunks) :
          /\ r.document_id \in 1..Len(documents)
          /\ r.chunk_order + 1 \in 1..Len(split_text(documents[r.document_id].content))
          /\ r.content = split_text(documents[r.document_id].content)[r.chunk_order + 1]
          /\ r.embedding = Embed(r.content)
          /\ <<r.document_id, r.chunk_order>> \notin chunk_errors
    /\ processing.pc = "chunks" =>
          \A k \in 1..(processing.i - 1) :
             \/ <<processing.document_id, k - 1>> \in chunk_errors
             \/ \E r \in ChunksOf(processing.document_id) : r.chunk_order = k - 1

\* The chunk loop finished a document whose first chunk failed and whose second
\* chunk was embedded and saved.
C10_Witness ==
    /\ processing.pc = "chunks"
    /\ processing.i > Len(processing.chunks)
    /\ <<processing.document_id, 0>> \in chunk_errors
    /\ \E r \in ChunksOf(processing.document_id) : r.chunk_order = 1

(***************************************************************************)
(* The service variant: calls of get_pdf_text sharing a cache.            *)
(***************************************************************************)
InitCache ==
    /\ variant = "service"
    /\ DbInit /\ connection_pool
    /\ AppInit /\ ChatInit /\ ServiceInit /\ google_api_key = TRUE

NextCache == GetPdfText

SpecCache == InitCache /\ [][NextCache]_vars

(***************************************************************************)
(* What one document gives when it is extracted on its own                *)
(* (document_service.py:63-91), and the concatenation, in input order, of *)
(* the texts of the documents that can be extracted.                      *)
(***************************************************************************)
Oversize(doc) == doc.size_mb > MAX_PDF_SIZE_MB

ExtractionFails(doc) == ~Oversize(doc) /\ PageLoop(doc.pages, 1, <<>>).raised

DocText(doc) ==
    IF Oversize(doc) \/ ExtractionFails(doc) THEN <<>> ELSE PageLoop(doc.pages, 1, <<>>).doc_text

RECURSIVE ColdText(_, _)
ColdText(pdf_docs, i) ==
    IF i > Len(pdf_docs) THEN <<>> ELSE DocText(pdf_docs[i]) \o ColdText(pdf_docs, i + 1)

FileOf(bytes) == CHOOSE f \in PdfFiles : f.bytes = bytes

Completed == extraction.pc # "idle" /\ ~extraction.returned_none

(* Positions of the last call whose bytes were extracted before them: in  *)
(* the cache when the call began, or extracted earlier in the call.       *)
AlreadyExtracted ==
    {i \in 1..Len(extraction.pdf_docs) :
        /\ ~Oversize(extraction.pdf_docs[i])
        /\ \/ compute_document_hash(extraction.pdf_docs[i].bytes) \in extraction.cache_before
           \/ \E j \in 1..(i - 1) : /\ j \in extraction.extracted
                                    /\ extraction.pdf_docs[j].bytes = extraction.pdf_docs[i].bytes}

\* C6: across get_pdf_text calls sharing one document_cache no content is
\* extracted twice; every occurrence of an already extracted content is a
\* cache hit and is not extracted, and cache_hits counts exactly the hits.
C6_CacheIdempotence ==
    /\ \A b \in DOMAIN extract_count : extract_count[b] <= 1
    /\ Completed =>
         /\ extraction.hits = AlreadyExtracted
         /\ extraction.hits \cap extraction.extracted = {}
         /\ extraction.cache_hits = Cardinality(extraction.hits)

C6_Witness ==
    /\ Completed
    /\ extraction.shared
    /\ extraction.cache_hits = 2
    /\ \E i \in extraction.hits :
         compute_document_hash(extraction.pdf_docs[i].bytes) \in extraction.cache_before
    /\ \E i \in extraction.hits :
         compute_document_hash(extraction.pdf_docs[i].bytes) \notin extraction.cache_before

\* C7: a miss stores the full extracted text under the content hash, and the
\* text a call returns with a warm shared cache is the text it returns with
\* an empty cache: the documents' texts concatenated in input order.
C7_CacheTransparency ==
    /\ \A k \in DOMAIN document_cache : document_cache[k] = DocText(FileOf(k[2]))
    /\ Completed =>
         /\ extraction.text = ColdText(extraction.pdf_docs, 1)
         /\ extraction.text = get_pdf_text(extraction.pdf_docs, EmptyCache).text
         /\ \A i \in extraction.extracted :
              compute_document_hash(extraction.pdf_docs[i].bytes) \in extraction.cache_after

C7_Witness ==
    /\ Completed
    /\ extraction.shared
    /\ Len(extraction.pdf_docs) = 2
    /\ extraction.hits = {1}
    /\ extraction.extracted = {2}
    /\ compute_document_hash(extraction.pdf_docs[1].bytes) \in extraction.cache_before
    /\ Len(extraction.text) = 3

(***************************************************************************)
(* Both variants: a run is one of the database-backed application or of   *)
(* the document service.                                                   *)
(***************************************************************************)
InitBatch ==
    /\ variant \in {"db", "service"}
    /\ DbInit
    /\ variant = "service" => connection_pool
    /\ AppInit /\ ChatInit /\ ServiceInit /\ google_api_key = TRUE

NextBatch ==
    \/ ClickProcessAll
    \/ UploadFile
    \/ ProcessChunk
    \/ UploadFileEnd
    \/ AfterLoop
    \/ SearchDocumentChunks
    \/ SearchDone
    \/ GetPdfText

SpecBatch == InitBatch /\ [][NextBatch]_vars

Contributed == extraction.hits \cup extraction.extracted

\* C8: a document whose extraction raises contributes no text, partial or
\* whole, and no cache entry, the later documents of the batch are still
\* processed and get_pdf_text does not raise; the upload loop records the
\* failed file and goes on to the next file, so every file is visited.
C8_FailuresIsolated ==
    /\ extraction.pc # "raised"
    /\ \A f \in PdfFiles :
         ExtractionFails(f) => compute_document_hash(f.bytes) \notin DOMAIN document_cache
    /\ Completed =>
         /\ extraction.text = ColdText(extraction.pdf_docs, 1)
         /\ \A i \in 1..Len(extraction.pdf_docs) :
              ExtractionFails(extraction.pdf_docs[i]) =>
                /\ i \notin Contributed
                /\ compute_document_hash(extraction.pdf_docs[i].bytes) \notin extraction.cache_after
                /\ \A j \in (i + 1)..Len(extraction.pdf_docs) :
                     ~Oversize(extraction.pdf_docs[j]) /\ ~ExtractionFails(extraction.pdf_docs[j])
                        => j \in Contributed
    /\ upload.pc \in {"loop", "done"} =>
         /\ upload.errors \subseteq 1..(upload.i - 1)
         /\ processing.pc = "idle" =>
              upload.processed_count + Cardinality(upload.errors) = upload.i - 1
    /\ upload.pc = "done" => upload.i = upload.n + 1

C8_Witness ==
    /\ Completed
    /\ Len(extraction.pdf_docs) = 3
    /\ ExtractionFails(extraction.pdf_docs[1])
    /\ extraction.extracted = {2, 3}
    /\ Len(extraction.text) = 3

\* C9: processed_count is the number of files for which process_document
\* returned a document id, and documents_skipped is the number of documents
\* of the call that contributed no text to the result.
C9_BatchSummaryCounts ==
    /\ upload.pc = "done" => upload.processed_count = Cardinality(upload.returned_ids)
    /\ Completed =>
         extraction.documents_skipped =
            Cardinality((1..Len(extraction.pdf_docs)) \ Contributed)

(***************************************************************************)
(* The file-backed vector store, src/src/vector_store.  FAISS.from_texts  *)
(* embeds the chunks and builds a new IndexFlatL2; it raises for an empty *)
(* list of texts, and for a failing embedding call.  save_local replaces  *)
(* the files at VECTOR_STORE_PATH.  The directory itself is made by       *)
(* settings.py, so os.path.exists is true before any index was saved.     *)
(***************************************************************************)
VectorStorePathExists == TRUE

FaissK == 4

configure_genai(key) == key

FaissDoc(text) == [page_content |-> text, embedding |-> Embed(text)]

from_texts(text_chunks) == [i \in 1..Len(text_chunks) |-> FaissDoc(text_chunks[i])]

get_vector_store(key, index, text_chunks, embed_ok) ==
    IF ~configure_genai(key)
    THEN [returned |-> FALSE, index |-> index]
    ELSE IF text_chunks = <<>> \/ ~embed_ok
    THEN [returned |-> FALSE, index |-> index]
    ELSE [returned |-> TRUE, index |-> [built |-> TRUE, docs |-> from_texts(text_chunks)]]

L2(e, q) == (e[1] - q[1]) * (e[1] - q[1]) + (e[2] - q[2]) * (e[2] - q[2])

(* similarity_search(question, k): the k nearest by L2 distance, nearest  *)
(* first; the set of sequences it may return, vectors at equal distance   *)
(* in either order.                                                        *)
similarity_search(docs, q, k) ==
    LET n == Len(docs)
        m == Min(k, n)
        picks == {s \in [1..m -> 1..n] :
                    /\ \A i, j \in 1..m : i < j => s[i] # s[j]
                    /\ \A i, j \in 1..m :
                         i < j => L2(docs[s[i]].embedding, q) <= L2(docs[s[j]].embedding, q)
                    /\ \A x \in (1..n) \ {s[i] : i \in 1..m} :
                         \A i \in 1..m : L2(docs[s[i]].embedding, q) <= L2(docs[x].embedding, q)}
    IN  {[i \in 1..m |-> docs[s[i]].page_content] : s \in picks}

SearchFailed == [returned_none |-> TRUE, docs |-> <<>>]

(* search_documents: None without a key, without a vector store path, and *)
(* for any exception: load_local of a directory holding no index, the      *)
(* embedding of the question, the audit log.                               *)
search_documents(key, index, question, ok) ==
    IF ~configure_genai(key) \/ ~VectorStorePathExists
    THEN {SearchFailed}
    ELSE IF ~index.built \/ ~ok
    THEN {SearchFailed}
    ELSE {[returned_none |-> FALSE, docs |-> d] :
             d \in similarity_search(index.docs, Embed(question), FaissK)}

GetVectorStore ==
    /\ variant = "vector_store"
    /\ \E text_chunks \in Texts, embed_ok \in BOOLEAN :
         \E r \in {get_vector_store(google_api_key, faiss_index, text_chunks, embed_ok)} :
             /\ faiss_index' = r.index
             /\ vector_call' = [pc |-> "get_vector_store", text_chunks |-> text_chunks,
                                returned |-> r.returned]
    /\ UNCHANGED <<variant, dbVars, appVars, chatVars, document_cache, extract_count,
                   extraction, google_api_key, store, rate, conns, tags>>

SearchDocuments ==
    /\ variant = "vector_store"
    /\ \E question \in Questions, ok \in BOOLEAN :
         \E r \in search_documents(google_api_key, faiss_index, question, ok) :
            vector_call' = [pc |-> "search_documents", question |-> question,
                            index_docs |-> Len(faiss_index.docs), ok |-> ok,
                            returned_none |-> r.returned_none, docs |-> r.docs]
    /\ UNCHANGED <<variant, dbVars, appVars, chatVars, document_cache, extract_count,
                   extraction, google_api_key, faiss_index, store, rate, conns, tags>>

InitIndex ==
    /\ variant \in {"db", "vector_store"}
    /\ DbInit
    /\ variant = "vector_store" => connection_pool
    /\ AppInit /\ ChatInit /\ ServiceInit
    /\ google_api_key \in BOOLEAN
    /\ variant = "db" => google_api_key

NextIndex ==
    \/ ClickProcessAll
    \/ UploadFile
    \/ ProcessChunk
    \/ UploadFileEnd
    \/ AfterLoop
    \/ SearchDocumentChunks
    \/ SearchDone
    \/ GetVectorStore
    \/ SearchDocuments

SpecIndex == InitIndex /\ [][NextIndex]_vars

\* C5: a search of an index that holds no chunks returns the empty sequence
\* and no failure value: search_document_chunks for a document without
\* chunks, and search_documents of the file-backed store (with a valid API
\* key and no failure of the embedding or logging calls).
C5_EmptyIndexEmptyResult ==
    /\ search.pc = "returned" /\ ChunksOf(search.document_id) = {} => search.rows = <<>>
    /\ /\ vector_call.pc = "search_documents"
       /\ google_api_key
       /\ vector_call.ok
       /\ vector_call.index_docs = 0
       => ~vector_call.returned_none /\ vector_call.docs = <<>>

(***************************************************************************)
(* The chat interface of app.py, over a database that earlier uploads     *)
(* filled: two documents and the chunks process_document saved for them.  *)
(***************************************************************************)
MaxQuestions == 1

MaxSessions == 2

BatchLimit == 8

AllOk(chunks) == [i \in 1..Len(chunks) |-> "ok"]

UploadedDocuments(t1, t2) ==
    LET d1 == <<DocumentRow(<<>>, "t", t1)>>
    IN  Append(d1, DocumentRow(d1, "u", t2))

UploadedChunks(t1, t2) ==
    ChunkLoop(ChunkLoop(<<>>, 1, split_text(t1), AllOk(t1), 1), 2, split_text(t2), AllOk(t2), 1)

InitChat ==
    /\ variant = "chat"
    /\ connection_pool = TRUE
    /\ embedding_model = TRUE
    /\ \E t1 \in {<<"a">>, <<"a", "b">>}, t2 \in {<<>>, <<"b", "a">>} :
         /\ documents = UploadedDocuments(t1, t2)
         /\ document_chunks = UploadedChunks(t1, t2)
    /\ chat_sessions = <<>>
    /\ chunk_errors = {}
    /\ AppInit /\ ChatInit /\ ServiceInit /\ google_api_key = TRUE

(* get_chat_sessions(user_id, document_id)[0]: the most recent session of *)
(* the document; get_messages_by_session_id: its messages, oldest first.  *)
SessionsOf(document_id) == {c \in Range(chat_sessions) : c.document_id = document_id}

MostRecent(sessions) == CHOOSE c \in sessions : \A x \in sessions : x.id <= c.id

Msg(role, content) == [role |-> role, content |-> content]

(* ORDER BY created_at ASC (repository.py:404): the orders the statement   *)
(* can return, rows of equal created_at in either order.                   *)
RECURSIVE OrderByCreatedAt(_, _)
OrderByCreatedAt(F, rest) ==
    IF rest = {}
    THEN {<<>>}
    ELSE LET first == {i \in rest : \A j \in rest : F[i].created_at <= F[j].created_at}
         IN  UNION {{<<F[i]>> \o s : s \in OrderByCreatedAt(F, rest \ {i})} : i \in first}

get_messages_by_session_id(table, session_id) ==
    LET rows == SelectSeq(table, LAMBDA r : r.session_id = session_id)
    IN  {[i \in 1..Len(s) |-> Msg(s[i].role, s[i].content)] :
            s \in OrderByCreatedAt(rows, 1..Len(rows))}

(* INSERT ... VALUES (..., NOW()) in a transaction of its own              *)
(* (repository.py:373-377, connection.py:138-141): created_at is the      *)
(* start of that transaction, later than that of every statement that     *)
(* was committed before.                                                   *)
MessageRowSameInstant(table, session_id, role, content) ==
    [id |-> Len(table) + 1, session_id |-> session_id,
     role |-> role, content |-> content, created_at |-> 1]

MessageRow(table, session_id, role, content) ==
    [id |-> Len(table) + 1, session_id |-> session_id,
     role |-> role, content |-> content, created_at |-> Len(table) + 1]

add_message_to_session(table, session_id, role, content) ==
    Append(table, MessageRow(table, session_id, role, content))

(***************************************************************************)
(* "Load Document" in single document mode (app.py:238-288).  A database  *)
(* error is caught by the handler of the sidebar (app.py:327-329) after   *)
(* current_document_id was set.  With db = "none" no connection is to be  *)
(* had: execute_query returns None, get_chat_sessions returns [] and      *)
(* get_document_by_id None, and no session is created or set.             *)
(***************************************************************************)
LoadDocument ==
    /\ variant \in {"chat", "session"}
    /\ \E document_id \in 1..Len(documents), db \in {"ok", "raise", "none"} :
         LET ss == [session_state EXCEPT !.current_document_id = document_id,
                                         !.is_batch_session = FALSE,
                                         !.selected_documents = <<>>]
         IN  IF db = "raise"
             THEN /\ session_state' = ss
                  /\ UNCHANGED chat_sessions
             ELSE IF db = "none"
             THEN /\ session_state' = [ss EXCEPT !.document_loaded = TRUE]
                  /\ UNCHANGED chat_sessions
             ELSE IF SessionsOf(document_id) # {}
             THEN /\ \E loaded \in get_messages_by_session_id(
                                       messages, MostRecent(SessionsOf(document_id)).id) :
                       session_state' =
                        [ss EXCEPT !.current_chat_session_id = MostRecent(SessionsOf(document_id)).id,
                                   !.messages = loaded,
                                   !.document_loaded = TRUE]
                  /\ UNCHANGED chat_sessions
             ELSE /\ Len(chat_sessions) < MaxSessions
                  /\ chat_sessions' = Append(chat_sessions, ChatSessionRow(chat_sessions, document_id))
                  /\ session_state' = [ss EXCEPT !.current_chat_session_id = Len(chat_sessions) + 1,
                                                 !.messages = <<>>,
                                                 !.document_loaded = TRUE]
    /\ UNCHANGED <<variant, connection_pool, documents, document_chunks, embedding_model,
                   chunk_errors, upload, processing, search, chatVars, svcVars>>

(***************************************************************************)
(* The sidebar rendered with chat mode "Single Document" while a batch    *)
(* session is on (app.py:240-244).                                         *)
(***************************************************************************)
SelectSingleMode ==
    /\ variant \in {"chat", "session"}
    /\ session_state.is_batch_session
    /\ session_state' = [session_state EXCEPT !.is_batch_session = FALSE,
                                              !.selected_documents = <<>>]
    /\ UNCHANGED <<variant, dbVars, upload, processing, search, chatVars, svcVars>>

(***************************************************************************)
(* "Start Batch Chat Session" (app.py:290-322): the checked documents, in *)
(* the order get_documents lists them (created_at DESC).                  *)
(***************************************************************************)
BatchSelections == {<<2, 1>>, <<2>>, <<1>>}

StartBatchChatSession ==
    /\ variant \in {"chat", "session"}
    /\ Len(chat_sessions) < MaxSessions
    /\ \E selected_doc_ids \in BatchSelections, db \in {"ok", "raise"} :
         IF db = "raise"
         THEN UNCHANGED <<chat_sessions, session_state>>
         ELSE /\ chat_sessions' = Append(chat_sessions,
                                         ChatSessionRow(chat_sessions, selected_doc_ids[1]))
              /\ session_state' = [session_state EXCEPT
                                     !.current_chat_session_id = Len(chat_sessions) + 1,
                                     !.current_document_id = selected_doc_ids[1],
                                     !.selected_documents = selected_doc_ids,
                                     !.is_batch_session = TRUE,
                                     !.messages = <<>>,
                                     !.document_loaded = TRUE]
    /\ UNCHANGED <<variant, connection_pool, documents, document_chunks, embedding_model,
                   chunk_errors, upload, processing, search, chatVars, svcVars>>

(***************************************************************************)
(* search_across_documents(user_id, query_embedding, document_ids, limit) *)
(* is imported by app.py but its body is not in db/repository.py; it is   *)
(* taken as the statement WHERE document_id = ANY(...) ORDER BY           *)
(* similarity DESC LIMIT k.                                                *)
(***************************************************************************)
ScopeRowsAny(chunks, document_ids) ==
    SelectSeq(chunks, LAMBDA r : r.document_id \in Range(document_ids))

search_across_documents(chunks, document_ids, q, limit) ==
    OrderByLimit(ScopeRowsAny(chunks, document_ids), q, limit)

(* The search of the chat handler (app.py:506-521): which function is     *)
(* called, and the results it may return.                                  *)
Searched(ss) ==
    IF ss.is_batch_session /\ ss.selected_documents # <<>> THEN "batch"
    ELSE IF ss.current_document_id # None THEN "single"
    ELSE "skipped"

Retrieval(ss, chunks, q) ==
    CASE Searched(ss) = "batch" ->
            search_across_documents(chunks, ss.selected_documents, q, BatchLimit)
      [] Searched(ss) = "single" ->
            search_document_chunks(chunks, ss.current_document_id, q, SingleLimit)
      [] OTHER -> {<<>>}

NoInfoMsg(is_batch) ==
    IF is_batch
    THEN "I couldn't find relevant information across the selected documents"
    ELSE "I couldn't find relevant information in the document"

(* formatted_chunks of app.py:525-536, each a sequence of pieces of text:  *)
(* the chunk's content, in batch mode after "Document: <title>\n".        *)
ContextNoTitles(is_batch, relevant_chunks) ==
    [i \in 1..Len(relevant_chunks) |-> <<relevant_chunks[i].content>>]

Context(is_batch, relevant_chunks) ==
    [i \in 1..Len(relevant_chunks) |->
        IF is_batch
        THEN <<"Document: ", documents[relevant_chunks[i].document_id].title, "\n",
               relevant_chunks[i].content>>
        ELSE <<relevant_chunks[i].content>>]

(* "\n\n".join(formatted_chunks) (app.py:531, 534-536).                    *)
RECURSIVE join(_, _)
join(sep, parts) ==
    IF parts = <<>> THEN <<>>
    ELSE IF Len(parts) = 1 THEN parts[1]
    ELSE parts[1] \o <<sep>> \o join(sep, Tail(parts))

(***************************************************************************)
(* The branch on relevant_chunks (app.py:523-611) up to the reply:        *)
(* whether generate_content is called, with what context, whether it      *)
(* raises, and the content of the assistant message.                      *)
(***************************************************************************)
ReplyAlwaysGenerates(is_batch, relevant_chunks, generate_ok) ==
    [generate_calls |-> 1, context |-> Context(is_batch, relevant_chunks),
     raised |-> ~generate_ok, content |-> "answer"]

Reply(is_batch, relevant_chunks, generate_ok) ==
    IF relevant_chunks # <<>>
    THEN [generate_calls |-> 1, context |-> Context(is_batch, relevant_chunks),
          raised |-> ~generate_ok, content |-> "answer"]
    ELSE [generate_calls |-> 0, context |-> <<>>,
          raised |-> FALSE, content |-> NoInfoMsg(is_batch)]

ErrorMsg == "Error generating response"

(* The first call of the handler that raises, if any, and whether the     *)
(* write of the error message succeeds.                                    *)
FailurePoints == {"none", "user_write", "embed", "search", "generate", "reply_write"}

Outcomes == [fails : FailurePoints, error_write : BOOLEAN]

(* The except branch of the handler (app.py:612-627): the error message   *)
(* is appended and written; a failing write leaves the handler by the     *)
(* outer except (app.py:628-630).                                          *)
ErrorPath(ss, table, o, c) ==
    LET ss1 == [ss EXCEPT !.messages = Append(@, Msg("assistant", ErrorMsg))]
        has == ss.current_chat_session_id # None
    IN  [session_state |-> ss1,
         messages |-> IF has /\ o.error_write
                      THEN add_message_to_session(table, ss.current_chat_session_id,
                                                  "assistant", ErrorMsg)
                      ELSE table,
         chat |-> [c EXCEPT !.replies = Append(@, ErrorMsg),
                            !.raised = has /\ ~o.error_write]]

(***************************************************************************)
(* The chat input handler (app.py:477-630) for one prompt; rows is the    *)
(* result of the search.                                                   *)
(***************************************************************************)
chat_input(ss, table, prompt, o, rows) ==
    LET has == ss.current_chat_session_id # None
        sid == ss.current_chat_session_id
        ss1 == [ss EXCEPT !.messages = Append(@, Msg("user", prompt))]
        c0  == [pc |-> "answered", asked |-> chat.asked + 1, prompt |-> prompt,
                is_batch |-> ss.is_batch_session, retrieval |-> "none",
                relevant_chunks |-> <<>>, generate_calls |-> 0, context |-> <<>>,
                searched |-> Searched(ss), prompt_context |-> <<>>,
                replies |-> <<>>, raised |-> FALSE]
        m1  == IF has THEN add_message_to_session(table, sid, "user", prompt) ELSE table
    IN  IF has /\ o.fails = "user_write"
        THEN [session_state |-> ss1, messages |-> table, chat |-> [c0 EXCEPT !.raised = TRUE]]
        ELSE IF o.fails = "embed"
        THEN ErrorPath(ss1, m1, o, c0)
        ELSE IF Searched(ss) # "skipped" /\ o.fails = "search"
        THEN ErrorPath(ss1, m1, o, [c0 EXCEPT !.retrieval = "raised"])
        ELSE LET b  == Reply(ss.is_batch_session, rows, o.fails # "generate")
                 c1 == [c0 EXCEPT !.retrieval = IF Searched(ss) = "skipped"
                                                THEN "skipped" ELSE "returned",
                                  !.relevant_chunks = rows,
                                  !.generate_calls = b.generate_calls,
                                  !.context = b.context,
                                  !.prompt_context = join("\n\n", b.context)]
                 ss2 == [ss1 EXCEPT !.messages = Append(@, Msg("assistant", b.content))]
                 c2 == [c1 EXCEPT !.replies = <<b.content>>]
             IN  IF b.raised
                 THEN ErrorPath(ss1, m1, o, c1)
                 ELSE IF has /\ o.fails = "reply_write"
                 THEN ErrorPath(ss2, m1, o, c2)
                 ELSE [session_state |-> ss2,
                       messages |-> IF has
                                    THEN add_message_to_session(m1, sid, "assistant", b.content)
                                    ELSE m1,
                       chat |-> c2]

ChatInput ==
    /\ variant = "chat"
    /\ session_state.document_loaded
    /\ chat.asked < MaxQuestions
    /\ \E prompt \in Questions :
         \E rows \in Retrieval(session_state, document_chunks, Embed(prompt)), o \in Outcomes :
            \E r \in {chat_input(session_state, messages, prompt, o, rows)} :
                /\ session_state' = r.session_state
                /\ messages' = r.messages
                /\ chat' = r.chat
    /\ UNCHANGED <<variant, dbVars, upload, processing, search, svcVars>>

NextChat ==
    \/ LoadDocument
    \/ SelectSingleMode
    \/ StartBatchChatSession
    \/ ChatInput

SpecChat == InitChat /\ [][NextChat]_vars

\* C4: generate_content is called for a question only when the search
\* returned at least one chunk; when the search returned none (or none was
\* made), generate_content is not called and the assistant reply is the
\* fixed message that no relevant information was found.
C4_GenerationOnlyWithContext ==
    chat.pc = "answered" =>
       /\ chat.generate_calls = 1 =>
             /\ chat.retrieval = "returned"
             /\ Len(chat.relevant_chunks) >= 1
             /\ Len(chat.context) = Len(chat.relevant_chunks)
       /\ chat.retrieval \in {"returned", "skipped"} /\ chat.relevant_chunks = <<>> =>
             /\ chat.generate_calls = 0
             /\ chat.replies # <<>>
             /\ chat.replies[1] = NoInfoMsg(chat.is_batch)

C4_Witness ==
    /\ chat.pc = "answered"
    /\ chat.retrieval = "returned"
    /\ chat.relevant_chunks = <<>>
    /\ chat.generate_calls = 0
    /\ chat.replies = <<NoInfoMsg(FALSE)>>
    /\ session_state.current_document_id = 2
    /\ ChunksOf(1) # {}

\* C11: a chunk whose embedding call failed is given up (logged and left
\* out of the index) only after embed_query was called again for it: a
\* single failed call is retried before the failure is surfaced.
C11_RetriedBeforeSurfaced ==
    processing.pc = "chunks" /\ processing.last_out = "embed_raise" =>
       processing.embed_calls >= 2

(***************************************************************************)
(* get_document_chunks(document_id): WHERE document_id = %s ORDER BY      *)
(* chunk_order ASC; the row sequences the statement can return.           *)
(***************************************************************************)
RECURSIVE OrderByChunkOrder(_, _)
OrderByChunkOrder(F, rest) ==
    IF rest = {}
    THEN {<<>>}
    ELSE LET first == {i \in rest : \A j \in rest : F[i].chunk_order <= F[j].chunk_order}
         IN  UNION {{<<F[i]>> \o s : s \in OrderByChunkOrder(F, rest \ {i})} : i \in first}

get_document_chunks(chunks, document_id) ==
    LET F == ScopeRows(chunks, document_id)
    IN  OrderByChunkOrder(F, 1..Len(F))

\* C12: the persisted chunks of a document have pairwise distinct
\* chunk_order values, each the chunk's position in the splitter output and
\* equal to metadata chunk_index, with total_chunks the number of chunks the
\* splitter produced; rows are saved in that order and get_document_chunks
\* returns them in ascending chunk_order.
C12_ChunkOrderStable ==
    \A d \in 1..Len(documents) :
       LET split == split_text(documents[d].content)
           F == ScopeRows(document_chunks, d)
       IN  /\ \A i, j \in 1..Len(F) : i < j => F[i].chunk_order < F[j].chunk_order
           /\ \A i \in 1..Len(F) :
                /\ F[i].chunk_order \in 0..(Len(split) - 1)
                /\ F[i].content = split[F[i].chunk_order + 1]
                /\ F[i].chunk_metadata.chunk_index = F[i].chunk_order
                /\ F[i].chunk_metadata.total_chunks = Len(split)
           /\ get_document_chunks(document_chunks, d) = {F}

C12_Witness ==
    /\ Len(documents) = 2
    /\ Len(ScopeRows(document_chunks, 1)) = 2
    /\ \E s \in get_document_chunks(document_chunks, 2) :
          /\ Len(s) = 1
          /\ s[1].chunk_order = 1
          /\ s[1].chunk_metadata.total_chunks = 2

IsPrefix(s, t) == Len(s) <= Len(t) /\ SubSeq(t, 1, Len(s)) = s

ValidChunkRow(r, docs) ==
    /\ r.document_id \in 1..Len(docs)
    /\ r.content \in Range(split_text(docs[r.document_id].content))
    /\ Len(r.embedding) = 2
    /\ r.chunk_order \in Nat
    /\ r.chunk_metadata.total_chunks >= 1

\* C13: every step of document processing, a failed one included, leaves
\* the persisted state valid: each chunk row references a persisted document
\* and carries its content, embedding, chunk_order and metadata, and the
\* documents and chunks persisted before the step are still there.
C13_PersistedStateValid ==
    [][/\ IsPrefix(documents, documents')
       /\ IsPrefix(document_chunks, document_chunks')
       /\ \A k \in 1..Len(document_chunks') :
            /\ document_chunks'[k].id = k
            /\ ValidChunkRow(document_chunks'[k], documents')]_vars

C13_Witness ==
    /\ processing.pc = "chunks"
    /\ processing.last_out = "save_raise"
    /\ processing.i = 3
    /\ \E r \in ChunksOf(processing.document_id) : r.chunk_order = 0
    /\ processing.document_id = 2
    /\ ChunksOf(1) # {}

\* C14: there is at most one document row per distinct file content (a
\* readable file is its text), and so at most one chunk set, however often
\* the same file is uploaded.
C14_NoDuplicateDocuments ==
    \A i, j \in 1..Len(documents) :
       documents[i].content = documents[j].content => i = j

GenerationInputLimit == 3

\* C16: the context given to generate_content is within the input limit of
\* the generation model: chunks beyond it are left out.
C16_ContextWithinLimit ==
    chat.pc = "answered" /\ chat.generate_calls = 1 =>
       Len(chat.context) <= GenerationInputLimit

(***************************************************************************)
(* get_vector_store and search_documents step by step, as the sessions    *)
(* of the application run them concurrently.  FAISS.save_local writes     *)
(* index.faiss and then index.pkl, each by opening the file for writing   *)
(* (which empties it) and closing it when all of it is written;           *)
(* FAISS.load_local reads index.faiss and then index.pkl.  The code       *)
(* takes no lock and writes no temporary file.                             *)
(***************************************************************************)
MaxRebuilds == 2

StoreTexts == {<<>>, <<"a">>, <<"b", "a">>}

Vectors(texts) == [i \in 1..Len(texts) |-> Embed(texts[i])]

Torn == [state |-> "partial", data |-> <<>>]

Written(data) == [state |-> "complete", data |-> data]

(* A complete index is on disk: both files whole, written from one list   *)
(* of texts.                                                               *)
PersistedComplete ==
    /\ store.index_faiss.state = "complete"
    /\ store.index_pkl.state = "complete"
    /\ store.index_faiss.data = Vectors(store.index_pkl.data)

Returns(s, result) ==
    [store EXCEPT !.pc[s] = "idle", !.local[s] = NoLocal, !.last[s] = result]

Failed(op, value, cause, had_index) ==
    [op |-> op, returned |-> value, docs |-> <<>>, cause |-> cause,
     had_index |-> had_index, consistent |-> TRUE]

storeFrame == <<variant, dbVars, appVars, chatVars, document_cache, extract_count,
                extraction, google_api_key, faiss_index, vector_call, rate, conns, tags>>

(* get_vector_store up to FAISS.from_texts (lines 72-80).                  *)
CallGetVectorStore(s) ==
    /\ variant = "store"
    /\ store.pc[s] = "idle"
    /\ store.rebuilds < MaxRebuilds
    /\ \E text_chunks \in StoreTexts, embed_ok \in BOOLEAN :
         store' =
            IF ~configure_genai(google_api_key) \/ text_chunks = <<>> \/ ~embed_ok
            THEN [Returns(s, Failed("get_vector_store", "False", "none", FALSE))
                     EXCEPT !.rebuilds = @ + 1]
            ELSE [store EXCEPT !.pc[s] = "save_faiss",
                               !.local[s] = [NoLocal EXCEPT !.texts = text_chunks],
                               !.rebuilds = @ + 1]
    /\ UNCHANGED storeFrame

(* save_local (line 81): faiss.write_index opens index.faiss ...           *)
WriteIndexOpen(s) ==
    /\ variant = "store"
    /\ store.pc[s] = "save_faiss"
    /\ store' = [store EXCEPT !.index_faiss = Torn, !.pc[s] = "saving_faiss"]
    /\ UNCHANGED storeFrame

(* ... and has written all of it;                                          *)
WriteIndexClose(s) ==
    /\ variant = "store"
    /\ store.pc[s] = "saving_faiss"
    /\ store' = [store EXCEPT !.index_faiss = Written(Vectors(store.local[s].texts)),
                              !.pc[s] = "save_pkl"]
    /\ UNCHANGED storeFrame

(* pickle.dump opens index.pkl ...                                         *)
PickleOpen(s) ==
    /\ variant = "store"
    /\ store.pc[s] = "save_pkl"
    /\ store' = [store EXCEPT !.index_pkl = Torn, !.pc[s] = "saving_pkl"]
    /\ UNCHANGED storeFrame

(* ... and has written all of it; get_vector_store returns True (line 83). *)
PickleClose(s) ==
    /\ variant = "store"
    /\ store.pc[s] = "saving_pkl"
    /\ store' = [Returns(s, [NoResult EXCEPT !.op = "get_vector_store", !.returned = "True"])
                    EXCEPT !.index_pkl = Written(store.local[s].texts)]
    /\ UNCHANGED storeFrame

(* search_documents up to load_local (lines 155-166).                      *)
CallSearchDocuments(s) ==
    /\ variant = "store"
    /\ store.pc[s] = "idle"
    /\ \E question \in Questions :
         store' =
            IF ~configure_genai(google_api_key)
            THEN Returns(s, Failed("search_documents", "None", "no_key", PersistedComplete))
            ELSE IF ~VectorStorePathExists
            THEN Returns(s, Failed("search_documents", "None", "no_path", PersistedComplete))
            ELSE [store EXCEPT !.pc[s] = "load_faiss",
                               !.local[s] = [NoLocal EXCEPT !.question = question,
                                                            !.had_index = PersistedComplete]]
    /\ UNCHANGED storeFrame

(* load_local (line 166): faiss.read_index of index.faiss raises for a    *)
(* missing and for a torn file; the except of line 189 returns None.      *)
ReadIndex(s) ==
    /\ variant = "store"
    /\ store.pc[s] = "load_faiss"
    /\ store' =
         CASE store.index_faiss.state = "absent" ->
                 Returns(s, Failed("search_documents", "None", "no_faiss",
                                   store.local[s].had_index))
           [] store.index_faiss.state = "partial" ->
                 Returns(s, Failed("search_documents", "None", "torn_faiss",
                                   store.local[s].had_index))
           [] OTHER ->
                 [store EXCEPT !.pc[s] = "load_pkl",
                               !.local[s].faiss = store.index_faiss.data]
    /\ UNCHANGED storeFrame

(* load_local: pickle.load of index.pkl, likewise.                         *)
PickleLoad(s) ==
    /\ variant = "store"
    /\ store.pc[s] = "load_pkl"
    /\ store' =
         CASE store.index_pkl.state = "absent" ->
                 Returns(s, Failed("search_documents", "None", "no_pkl",
                                   store.local[s].had_index))
           [] store.index_pkl.state = "partial" ->
                 Returns(s, Failed("search_documents", "None", "torn_pkl",
                                   store.local[s].had_index))
           [] OTHER ->
                 [store EXCEPT !.pc[s] = "search",
                               !.local[s].pkl = store.index_pkl.data]
    /\ UNCHANGED storeFrame

(* similarity_search and the return (lines 172-187): the nearest vectors  *)
(* of index.faiss, each looked up by its position among the texts of      *)
(* index.pkl; a position the texts do not have raises KeyError.           *)
SimilaritySearch(s) ==
    /\ variant = "store"
    /\ store.pc[s] = "search"
    /\ LET l == store.local[s]
           docs == [i \in 1..Len(l.faiss) |-> [page_content |-> l.pkl[i], embedding |-> l.faiss[i]]]
       IN  \E ok \in BOOLEAN :
             IF ~ok
             THEN store' = Returns(s, Failed("search_documents", "None", "error", l.had_index))
             ELSE IF Len(l.faiss) > Len(l.pkl)
             THEN store' = Returns(s, Failed("search_documents", "None", "mismatch", l.had_index))
             ELSE \E d \in similarity_search(docs, Embed(l.question), FaissK) :
                     store' = Returns(s, [op |-> "search_documents", returned |-> "docs",
                                          docs |-> d, cause |-> "none",
                                          had_index |-> l.had_index,
                                          consistent |-> (l.faiss = Vectors(l.pkl))])
    /\ UNCHANGED storeFrame

InitStore ==
    /\ variant = "store"
    /\ DbInit
    /\ connection_pool = TRUE
    /\ AppInit /\ ChatInit /\ ServiceInit
    /\ google_api_key \in BOOLEAN

NextStore ==
    \E s \in Sessions :
       \/ CallGetVectorStore(s)
       \/ WriteIndexOpen(s)
       \/ WriteIndexClose(s)
       \/ PickleOpen(s)
       \/ PickleClose(s)
       \/ CallSearchDocuments(s)
       \/ ReadIndex(s)
       \/ PickleLoad(s)
       \/ SimilaritySearch(s)

SpecStore == InitStore /\ [][NextStore]_vars

(* What a load of the index found, by the step that ended it.             *)
LoadOutcome(cause) ==
    CASE cause = "none" -> "found"
      [] cause = "no_faiss" -> "not_built"
      [] cause \in {"torn_faiss", "torn_pkl", "mismatch"} -> "corrupt"
      [] cause = "no_key" -> "no_key"
      [] OTHER -> "other"

\* C17: what search_documents returns tells the caller what the load of the
\* index found: two calls that found different things among index found, index
\* not yet built, index corrupt and API key missing return different results.
C17_LoadOutcomesDistinguished ==
    \A s, t \in Sessions :
       LET a == store.last[s]
           b == store.last[t]
       IN  /\ a.op = "search_documents" /\ b.op = "search_documents"
           /\ LoadOutcome(a.cause) # "other" /\ LoadOutcome(b.cause) # "other"
           /\ a.returned = b.returned /\ a.docs = b.docs
           => LoadOutcome(a.cause) = LoadOutcome(b.cause)

\* C18: the index on disk is replaced atomically and by one writer at a
\* time: when no get_vector_store is saving, the files on disk are those of
\* one rebuild (or none was saved yet), and a search_documents that began
\* with a complete index on disk loads a complete index, the previous or
\* the new one.
C18_AtomicReplace ==
    /\ (\A s \in Sessions :
          store.pc[s] \notin {"save_faiss", "saving_faiss", "save_pkl", "saving_pkl"})
       => \/ PersistedComplete
          \/ store.index_faiss = NoFile /\ store.index_pkl = NoFile
    /\ \A s \in Sessions :
          LET a == store.last[s]
          IN  a.op = "search_documents" /\ a.had_index /\ a.cause \notin {"no_key", "error"}
              => a.cause = "none" /\ a.consistent

(***************************************************************************)
(* The embedding provider and the dimension of the vectors.               *)
(* get_embedding_model takes Google's model when GOOGLE_API_KEY is set    *)
(* and the local all-MiniLM-L6-v2 otherwise, once for the life of the     *)
(* process; the two return vectors of different dimensions.  The table    *)
(* is made by db/schema.sql, which init_db reads (connection.py:64-66)    *)
(* and which is not among the sources: its column embedding is taken as   *)
(* a vector of declared dimension, that of Google's model, so that        *)
(* pgvector refuses the INSERT of any other.  The operator <=> of the     *)
(* search raises for two vectors of different dimensions.                  *)
(***************************************************************************)
SchemaDimension == 2

EmbedLocal(text) ==
    CASE text = "a" -> <<0, 1, 1>>
      [] text = "b" -> <<1, 0, 1>>
      [] OTHER -> <<1, 1, 0>>

get_embedding_model(key) == IF key THEN "google" ELSE "huggingface"

embed_query(model, text) == IF model = "google" THEN Embed(text) ELSE EmbedLocal(text)

InsertRaises(row) == Len(row.embedding) # SchemaDimension

(* One iteration of the chunk loop (document_processor.py:62-85) with the *)
(* model of the process: a raising INSERT is logged and the loop goes on. *)
EmbedStepTruncates(table, document_id, chunks, i, model) ==
    LET row == ChunkRow(table, document_id, chunks, i, embed_query(model, chunks[i]))
    IN  Append(table, [row EXCEPT !.embedding = SubSeq(@, 1, SchemaDimension)])

EmbedStep(table, document_id, chunks, i, model) ==
    LET row == ChunkRow(table, document_id, chunks, i, embed_query(model, chunks[i]))
    IN  IF InsertRaises(row) THEN table ELSE Append(table, row)

RECURSIVE EmbedLoop(_, _, _, _, _)
EmbedLoop(table, document_id, chunks, i, model) ==
    IF i > Len(chunks)
    THEN table
    ELSE EmbedLoop(EmbedStep(table, document_id, chunks, i, model),
                   document_id, chunks, i + 1, model)

EmbedLoopErrors(document_id, chunks, model) ==
    {<<document_id, i - 1>> : i \in {k \in 1..Len(chunks) :
        InsertRaises(ChunkRow(<<>>, document_id, chunks, k, embed_query(model, chunks[k])))}}

dimFrame == <<variant, connection_pool, chat_sessions, upload, processing, session_state,
              chatVars, document_cache, extract_count, extraction, faiss_index, vector_call,
              store, rate, conns, tags>>

(* process_document for one uploaded text.                                 *)
DimTexts == {<<"b">>, <<"a", "b">>}

ProcessDocument ==
    /\ variant = "dimension"
    /\ Len(documents) < MaxDocuments
    /\ \E text \in DimTexts :
         LET document_id == Len(documents) + 1
             model == get_embedding_model(google_api_key)
         IN  /\ documents' = Append(documents, DocumentRow(documents, "t", text))
             /\ document_chunks' = EmbedLoop(document_chunks, document_id, split_text(text), 1, model)
             /\ chunk_errors' = chunk_errors \cup EmbedLoopErrors(document_id, split_text(text), model)
    /\ embedding_model' = TRUE
    /\ UNCHANGED <<dimFrame, google_api_key, search>>

(* The application is started again, with or without GOOGLE_API_KEY: the  *)
(* module's _embedding_model is None again (embedding.py:13).             *)
RestartApplication ==
    /\ variant = "dimension"
    /\ google_api_key' \in BOOLEAN
    /\ embedding_model' = FALSE
    /\ search' = NoCall
    /\ UNCHANGED <<dimFrame, documents, document_chunks, chunk_errors>>

(* The search of the chat handler (app.py:501-521) with the model of the  *)
(* process.                                                                *)
DistanceRaises(rows, q) == \E k \in 1..Len(rows) : Len(rows[k].embedding) # Len(q)

SearchWithModel ==
    /\ variant = "dimension"
    /\ \E document_id \in 1..Len(documents), question \in Questions :
         LET q == embed_query(get_embedding_model(google_api_key), question)
         IN  IF DistanceRaises(ScopeRows(document_chunks, document_id), q)
             THEN search' = [pc |-> "raised", document_id |-> document_id,
                             query |-> q, limit |-> SingleLimit, rows |-> <<>>]
             ELSE \E rows \in search_document_chunks(document_chunks, document_id, q, SingleLimit) :
                     search' = [pc |-> "returned", document_id |-> document_id,
                                query |-> q, limit |-> SingleLimit, rows |-> rows]
    /\ embedding_model' = TRUE
    /\ UNCHANGED <<dimFrame, google_api_key, documents, document_chunks, chunk_errors>>

InitDim ==
    /\ variant = "dimension"
    /\ DbInit
    /\ connection_pool = TRUE
    /\ AppInit /\ ChatInit /\ ServiceInit
    /\ google_api_key = TRUE

NextDim ==
    \/ ProcessDocument
    \/ RestartApplication
    \/ SearchWithModel

SpecDim == InitDim /\ [][NextDim]_vars

ChunkSizes == 1..2

ChunkOverlaps == 0..2

TextSplitterRaises(chunk_size, chunk_overlap) == chunk_overlap > chunk_size

process_document(docs, table, text, chunk_size, chunk_overlap) ==
    LET document_id == Len(docs) + 1
        saved == Append(docs, DocumentRow(docs, "t", text))
    IN  IF TextSplitterRaises(chunk_size, chunk_overlap)
        THEN [documents |-> saved, document_chunks |-> table, raised |-> TRUE]
        ELSE [documents |-> saved,
              document_chunks |-> ChunkLoop(table, document_id, split_text(text),
                                            AllOk(split_text(text)), 1),
              raised |-> FALSE]

ProcessDocumentConfigured ==
    /\ variant = "chunker"
    /\ Len(documents) < MaxDocuments
    /\ \E text \in Texts, chunk_size \in ChunkSizes, chunk_overlap \in ChunkOverlaps :
         \E r \in {process_document(documents, document_chunks, text, chunk_size, chunk_overlap)} :
            /\ documents' = r.documents
            /\ document_chunks' = r.document_chunks
            /\ processing' = [pc |-> IF r.raised THEN "raised" ELSE "returned",
                              chunk_size |-> chunk_size, chunk_overlap |-> chunk_overlap,
                              documents_before |-> Len(documents),
                              chunks_before |-> Len(document_chunks)]
            /\ embedding_model' = (embedding_model \/ ~r.raised)
    /\ UNCHANGED <<variant, connection_pool, chat_sessions, chunk_errors, upload,
                   session_state, search, chatVars, svcVars>>

InitChunker ==
    /\ variant = "chunker"
    /\ DbInit
    /\ connection_pool = TRUE
    /\ AppInit /\ ChatInit /\ ServiceInit
    /\ google_api_key = TRUE

NextChunker == ProcessDocumentConfigured

SpecChunker == InitChunker /\ [][NextChunker]_vars

\* C20: process_document called with chunk_overlap >= chunk_size raises the
\* configuration error, and has persisted no document and no chunk when it
\* does.
C20_FailFastOnConfiguration ==
    processing.pc \in {"raised", "returned"} /\ processing.chunk_overlap >= processing.chunk_size =>
       /\ processing.pc = "raised"
       /\ Len(documents) = processing.documents_before
       /\ Len(document_chunks) = processing.chunks_before

C22_FailureIsNotAnAnswer ==
    /\ chat.pc = "answered"
    /\ chat.generate_calls = 1
    /\ chat.replies # <<>>
    /\ chat.replies[1] = ErrorMsg
    => /\ \A i \in 1..Len(session_state.messages) :
             ~(session_state.messages[i].role = "assistant"
               /\ session_state.messages[i].content = ErrorMsg)
       /\ \A k \in 1..Len(messages) :
             ~(messages[k].role = "assistant" /\ messages[k].content = ErrorMsg)

(***************************************************************************)
(* helpers.check_rate_limits(session_state), src/src/utils/helpers.py.    *)
(* Time is counted in ticks of half a minute, and the limits and windows  *)
(* of settings.py and of the function are scaled down with it: the window *)
(* of one minute is OneMinute ticks, that of one hour OneHour ticks.      *)
(* time.time() does not decrease from one call to the next.               *)
(***************************************************************************)
RATE_LIMIT_QUERIES_PER_MINUTE == 2

RATE_LIMIT_QUERIES_PER_HOUR == 3

OneMinute == 2

OneHour == 4

MaxCalls == 5

MaxTime == 5

check_rate_limits_at_limit(api_call_history, current_time) ==
    LET appended == Append(api_call_history, current_time)
        kept == SelectSeq(appended, LAMBDA t : t > current_time - OneHour)
        requests_last_minute ==
           Cardinality({i \in 1..Len(kept) : kept[i] > current_time - OneMinute})
    IN  [api_call_history |-> kept,
         returned |-> ~(requests_last_minute >= RATE_LIMIT_QUERIES_PER_MINUTE)]

check_rate_limits(api_call_history, current_time) ==
    LET appended == Append(api_call_history, current_time)
        kept == SelectSeq(appended, LAMBDA t : t > current_time - OneHour)
        requests_last_minute ==
           Cardinality({i \in 1..Len(kept) : kept[i] > current_time - OneMinute})
    IN  [api_call_history |-> kept,
         returned |-> ~(requests_last_minute > RATE_LIMIT_QUERIES_PER_MINUTE)]

rateFrame == <<variant, dbVars, appVars, chatVars, document_cache, extract_count, extraction,
               google_api_key, faiss_index, vector_call, store, conns, tags>>

CheckRateLimits ==
    /\ variant = "rate"
    /\ Len(rate.calls) < MaxCalls
    /\ \E r \in {check_rate_limits(rate.api_call_history, rate.now)} :
         rate' = [rate EXCEPT !.api_call_history = r.api_call_history,
                              !.calls = Append(@, [t |-> rate.now, returned |-> r.returned])]
    /\ UNCHANGED rateFrame

(* Half a minute passes.                                                   *)
Tick ==
    /\ variant = "rate"
    /\ rate.now < MaxTime
    /\ rate' = [rate EXCEPT !.now = @ + 1]
    /\ UNCHANGED rateFrame

InitRate ==
    /\ variant = "rate"
    /\ DbInit
    /\ connection_pool = TRUE
    /\ AppInit /\ ChatInit /\ ServiceInit
    /\ google_api_key = TRUE

NextRate ==
    \/ CheckRateLimits
    \/ Tick

SpecRate == InitRate /\ [][NextRate]_vars

(* The calls up to the k-th, the allowed ones only or all, made less than *)
(* window ticks before the k-th.                                           *)
CallsWithin(k, window, allowed_only) ==
    {j \in 1..k : /\ rate.calls[j].t > rate.calls[k].t - window
                  /\ allowed_only => rate.calls[j].returned}

\* C23: check_rate_limits returns False exactly when more than
\* RATE_LIMIT_QUERIES_PER_MINUTE calls, the current one and rejected ones
\* included, were made within the last minute; so no window shorter than a
\* minute holds more than that many calls that returned True.
C23_PerMinuteLimit ==
    \A k \in 1..Len(rate.calls) :
       /\ rate.calls[k].returned =
             ~(Cardinality(CallsWithin(k, OneMinute, FALSE)) > RATE_LIMIT_QUERIES_PER_MINUTE)
       /\ Cardinality(CallsWithin(k, OneMinute, TRUE)) <= RATE_LIMIT_QUERIES_PER_MINUTE

C23_Witness ==
    /\ Len(rate.calls) = 5
    /\ rate.calls[3].returned = FALSE
    /\ rate.calls[4].returned = FALSE
    /\ rate.calls[4].t > rate.calls[3].t
    /\ rate.calls[5].returned = TRUE

\* C24: no window of one hour holds more than RATE_LIMIT_QUERIES_PER_HOUR
\* calls of check_rate_limits that returned True.
C24_HourlyLimit ==
    \A k \in 1..Len(rate.calls) :
       Cardinality(CallsWithin(k, OneHour, TRUE)) <= RATE_LIMIT_QUERIES_PER_HOUR

(***************************************************************************)
(* The session state under the actions of the sidebar (app.py:105-373),   *)
(* over a database that holds two documents and, possibly, a chat         *)
(* session of the first with a question and its answer.                    *)
(***************************************************************************)
sessionFrame == <<variant, connection_pool, document_chunks, embedding_model, chunk_errors,
                  upload, processing, search, chat, svcVars>>

(* "Process All Documents" with one file that was processed (app.py:      *)
(* 105-191): the document is saved, and after the loop the session state  *)
(* is set to it.  lookup = "none": get_document_by_id returns None;       *)
(* create = "none": create_chat_session returns None.                     *)
ProcessAllDocuments ==
    /\ variant = "session"
    /\ Len(documents) < MaxDocuments + 1
    /\ Len(chat_sessions) < MaxSessions
    /\ \E lookup \in {"ok", "none"}, create \in {"ok", "none"} :
         LET last_document_id == Len(documents) + 1
             ss == [session_state EXCEPT !.current_document_id = last_document_id,
                                         !.document_loaded = TRUE]
         IN  /\ documents' = Append(documents, DocumentRow(documents, "v", <<>>))
             /\ IF lookup = "none"
                THEN /\ session_state' = ss
                     /\ UNCHANGED chat_sessions
                ELSE IF create = "none"
                THEN /\ session_state' = [ss EXCEPT !.current_chat_session_id = None,
                                                    !.messages = <<>>]
                     /\ UNCHANGED chat_sessions
                ELSE /\ chat_sessions' = Append(chat_sessions,
                                                ChatSessionRow(chat_sessions, last_document_id))
                     /\ session_state' = [ss EXCEPT
                                            !.current_chat_session_id = Len(chat_sessions) + 1,
                                            !.messages = <<>>]
    /\ UNCHANGED <<sessionFrame, messages>>

(* "Load Chat Session" (app.py:339-361): a session of the current         *)
(* document; get_messages_by_session_id may raise after the id was set.   *)
LoadChatSession ==
    /\ variant = "session"
    /\ session_state.current_document_id # None
    /\ \E c \in SessionsOf(session_state.current_document_id), db \in {"ok", "raise"} :
         IF db = "raise"
         THEN session_state' = [session_state EXCEPT !.current_chat_session_id = c.id]
         ELSE \E loaded \in get_messages_by_session_id(messages, c.id) :
                 session_state' = [session_state EXCEPT !.current_chat_session_id = c.id,
                                                        !.messages = loaded]
    /\ UNCHANGED <<sessionFrame, documents, chat_sessions, messages>>

(* "Create New Chat Session" (app.py:363-370).                             *)
CreateNewChatSession ==
    /\ variant = "session"
    /\ session_state.current_document_id # None
    /\ Len(chat_sessions) < MaxSessions
    /\ \E create \in {"ok", "none"} :
         IF create = "none"
         THEN /\ session_state' = [session_state EXCEPT !.current_chat_session_id = None,
                                                        !.messages = <<>>]
              /\ UNCHANGED chat_sessions
         ELSE /\ chat_sessions' = Append(chat_sessions,
                     ChatSessionRow(chat_sessions, session_state.current_document_id))
              /\ session_state' = [session_state EXCEPT
                                     !.current_chat_session_id = Len(chat_sessions) + 1,
                                     !.messages = <<>>]
    /\ UNCHANGED <<sessionFrame, documents, messages>>

EarlierChat(table) ==
    add_message_to_session(add_message_to_session(table, 1, "user", "a"),
                           1, "assistant", "answer")

InitSession ==
    /\ variant = "session"
    /\ connection_pool = TRUE
    /\ embedding_model = TRUE
    /\ documents = UploadedDocuments(<<"a">>, <<"b", "a">>)
    /\ document_chunks = UploadedChunks(<<"a">>, <<"b", "a">>)
    /\ \/ chat_sessions = <<>> /\ messages = <<>>
       \/ /\ chat_sessions = <<ChatSessionRow(<<>>, 1)>>
          /\ messages = EarlierChat(<<>>)
    /\ chunk_errors = {}
    /\ upload = NoCall /\ processing = NoCall /\ search = NoCall
    /\ session_state = SessionInit
    /\ chat = [pc |-> "idle", asked |-> 0]
    /\ ServiceInit /\ google_api_key = TRUE

NextSession ==
    \/ ProcessAllDocuments
    \/ LoadDocument
    \/ SelectSingleMode
    \/ StartBatchChatSession
    \/ LoadChatSession
    \/ CreateNewChatSession

SpecSession == InitSession /\ [][NextSession]_vars

\* C25: whenever is_batch_session is true, selected_documents is not empty
\* and current_document_id is its first element.
C25_BatchAnchored ==
    session_state.is_batch_session =>
       /\ session_state.selected_documents # <<>>
       /\ session_state.current_document_id = session_state.selected_documents[1]

\* C26: whenever document_loaded is true and current_chat_session_id is set,
\* the chat session is one of the current document and
\* session_state.messages are the messages of that session.
C26_SessionOfCurrentDocument ==
    session_state.document_loaded /\ session_state.current_chat_session_id # None =>
       /\ chat_sessions[session_state.current_chat_session_id].document_id
             = session_state.current_document_id
       /\ session_state.messages
             \in get_messages_by_session_id(messages, session_state.current_chat_session_id)

\* C27: every submitted question adds exactly one user message followed by
\* exactly one assistant message (the answer, the no-information message or
\* the error message) to session_state.messages, and when a chat session is
\* current the same two messages are persisted to it in the same order.
C27_OneUserOneAssistant ==
    [][chat'.asked = chat.asked + 1 =>
         \E content \in {"answer", NoInfoMsg(TRUE), NoInfoMsg(FALSE), ErrorMsg} :
            LET sid == session_state.current_chat_session_id
                two == <<Msg("user", chat'.prompt), Msg("assistant", content)>>
            IN  /\ session_state'.messages = session_state.messages \o two
                /\ sid # None =>
                      get_messages_by_session_id(messages', sid)
                         = {s \o two : s \in get_messages_by_session_id(messages, sid)}]_vars

\* C28: every temporary PDF file the upload loop created is deleted by the
\* end of the batch, whether extraction and processing succeeded or raised.
C28_TemporaryFilesDeleted ==
    upload.pc = "done" => upload.tmp_files = {}

(***************************************************************************)
(* execute_query (connection.py:105-152) called by several threads over   *)
(* the connection pool.  used are the connections handed out by getconn,  *)
(* open the connections with a transaction begun and not ended, closed    *)
(* the connections that were lost.  A call records how its transaction    *)
(* ended and how often it called putconn.                                  *)
(***************************************************************************)
connsFrame == <<variant, dbVars, appVars, chatVars, document_cache, extract_count, extraction,
                google_api_key, faiss_index, vector_call, store, rate, tags>>

(* get_db_connection (connection.py:81-93): without a pool None; getconn  *)
(* hands out a connection that is not in use, or raises when there is     *)
(* none, and the function returns None.                                    *)
get_db_connection(p) ==
    IF ~connection_pool \/ p.used = PoolConnections THEN {None} ELSE PoolConnections \ p.used

(* release_db_connection (connection.py:96-102): putconn takes the        *)
(* connection back, discards it when it is closed and rolls back a        *)
(* transaction it still has.                                               *)
release_db_connection_unless_closed(p, conn) ==
    IF conn \in p.closed THEN p
    ELSE [p EXCEPT !.used = @ \ {conn}, !.open = @ \ {conn}]

release_db_connection(p, conn) ==
    [p EXCEPT !.used = @ \ {conn}, !.open = @ \ {conn}, !.closed = @ \ {conn}]

(* connection.py:122-126: the connection, or the return of None.          *)
QueryConnect(t) ==
    /\ variant = "pool"
    /\ conns.call[t].pc = "idle"
    /\ \E conn \in get_db_connection(conns) :
         IF conn = None
         THEN conns' = [conns EXCEPT !.call[t] = [NoQuery EXCEPT !.result = "None"]]
         ELSE conns' = [conns EXCEPT !.used = @ \cup {conn},
                                     !.call[t] = [NoQuery EXCEPT !.pc = "connected",
                                                                 !.conn = conn]]
    /\ UNCHANGED connsFrame

(* connection.py:128-140: the cursor, execute and the fetch; the          *)
(* statement begins a transaction.                                         *)
QueryExecute(t) ==
    /\ variant = "pool"
    /\ conns.call[t].pc = "connected"
    /\ \E out \in {"ok", "raise"} :
         conns' = [conns EXCEPT !.open = @ \cup {conns.call[t].conn},
                                !.call[t].pc = IF out = "ok" THEN "executed" ELSE "except"]
    /\ UNCHANGED connsFrame

(* connection.py:142-143: conn.commit() and the return of the result.     *)
QueryCommit(t) ==
    /\ variant = "pool"
    /\ conns.call[t].pc = "executed"
    /\ \E out \in {"ok", "raise"} :
         IF out = "ok"
         THEN conns' = [conns EXCEPT !.open = @ \ {conns.call[t].conn},
                                     !.call[t].pc = "finally",
                                     !.call[t].ended = "commit",
                                     !.call[t].result = "returned"]
         ELSE conns' = [conns EXCEPT !.call[t].pc = "except"]
    /\ UNCHANGED connsFrame

(* connection.py:144-148: conn.rollback() and the raise.  A rollback that *)
(* raises is one on a lost connection, whose transaction the server has   *)
(* ended.                                                                  *)
QueryExcept(t) ==
    /\ variant = "pool"
    /\ conns.call[t].pc = "except"
    /\ \E out \in {"ok", "raise"} :
         conns' = [conns EXCEPT !.open = @ \ {conns.call[t].conn},
                                !.closed = IF out = "ok" THEN @ ELSE @ \cup {conns.call[t].conn},
                                !.call[t].pc = "finally",
                                !.call[t].ended = "rollback",
                                !.call[t].result = "raised"]
    /\ UNCHANGED connsFrame

(* connection.py:149-153: the finally block.                               *)
QueryFinally(t) ==
    /\ variant = "pool"
    /\ conns.call[t].pc = "finally"
    /\ \E p \in {release_db_connection(conns, conns.call[t].conn)} :
         conns' = [p EXCEPT !.call[t].pc = "idle",
                            !.call[t].conn = None,
                            !.call[t].putconn = @ + 1]
    /\ UNCHANGED connsFrame

InitPool ==
    /\ variant = "pool"
    /\ DbInit
    /\ AppInit /\ ChatInit /\ ServiceInit
    /\ google_api_key = TRUE

NextPool ==
    \E t \in Threads :
       \/ QueryConnect(t)
       \/ QueryExecute(t)
       \/ QueryCommit(t)
       \/ QueryExcept(t)
       \/ QueryFinally(t)

SpecPool == InitPool /\ [][NextPool]_vars

\* C29: execute_query leaks neither a connection nor a transaction: the
\* connections handed out are those of the calls in progress (none when no
\* call is in progress), a call that returned a result committed, a call
\* that raised rolled back, each called putconn exactly once, and no
\* connection in the pool has an open transaction.
C29_NoLeak ==
    /\ conns.used = {conns.call[t].conn : t \in {u \in Threads : conns.call[u].pc # "idle"}}
    /\ conns.open \subseteq conns.used
    /\ conns.closed \subseteq conns.used
    /\ \A t \in Threads :
          /\ conns.call[t].pc = "finally" => conns.call[t].conn \notin conns.open
          /\ conns.call[t].pc = "idle" =>
                /\ conns.call[t].result = "returned" =>
                      conns.call[t].ended = "commit" /\ conns.call[t].putconn = 1
                /\ conns.call[t].result = "raised" =>
                      conns.call[t].ended = "rollback" /\ conns.call[t].putconn = 1
                /\ conns.call[t].result \in {"none", "None"} => conns.call[t].putconn = 0

C29_Witness ==
    /\ \A t \in Threads : conns.call[t].pc = "idle"
    /\ conns.used = {}
    /\ \E t, u, v \in Threads :
          /\ conns.call[t].result = "raised"
          /\ conns.call[u].result = "returned"
          /\ conns.call[v].result = "None"

(***************************************************************************)
(* add_tag_to_document and remove_tag_from_document (repository.py:       *)
(* 463-552) on one document, called by two sessions, each with a tag name *)
(* of its own.  tags.stored is the column documents.tags (<<>> for NULL), *)
(* tags.last the operation of a session's last call that returned True.   *)
(***************************************************************************)
MaxTagCalls == 4

TagName(s) == IF s = 1 THEN "p" ELSE "q"

json_dumps(list) == <<"json", list>>

json_loads(str) == str[2]

(* repository.py:481-489, 527-535: the tags of the document row.          *)
ParseTags(column) == IF column = <<>> THEN <<>> ELSE json_loads(column)

Contains(list, tag_name) == \E i \in 1..Len(list) : list[i] = tag_name

(* repository.py:491-493 and 537-539.                                      *)
ChangedTags(op, current_tags, tag_name) ==
    IF op = "add"
    THEN IF Contains(current_tags, tag_name) THEN current_tags
         ELSE Append(current_tags, tag_name)
    ELSE SelectSeq(current_tags, LAMBDA x : x # tag_name)

tagsFrame == <<variant, dbVars, appVars, chatVars, document_cache, extract_count, extraction,
               google_api_key, faiss_index, vector_call, store, rate, conns>>

(* The call up to the UPDATE: get_document_by_id, the parse and the       *)
(* change of the local list.  Without a connection get_document_by_id     *)
(* returns None, and when it raises the except branch returns False.      *)
TagRead(s) ==
    /\ variant = "tags"
    /\ tags.pc[s] = "idle"
    /\ tags.calls < MaxTagCalls
    /\ \E op \in {"add", "remove"}, db \in {"ok", "raise"} :
         IF ~connection_pool \/ db = "raise"
         THEN tags' = [tags EXCEPT !.calls = @ + 1]
         ELSE tags' = [tags EXCEPT
                         !.calls = @ + 1,
                         !.pc[s] = "update",
                         !.local[s] = [op |-> op, tag_name |-> TagName(s),
                                       current_tags |-> ChangedTags(op, ParseTags(tags.stored),
                                                                    TagName(s))]]
    /\ UNCHANGED tagsFrame

(* The UPDATE with the whole list (repository.py:495-502, 541-548) and    *)
(* the return.                                                             *)
TagUpdate(s) ==
    /\ variant = "tags"
    /\ tags.pc[s] = "update"
    /\ \E db \in {"ok", "raise"} :
         IF db = "raise"
         THEN tags' = [tags EXCEPT !.pc[s] = "idle", !.local[s] = NoTagCall]
         ELSE tags' = [tags EXCEPT !.stored = json_dumps(tags.local[s].current_tags),
                                   !.last[s] = tags.local[s].op,
                                   !.pc[s] = "idle", !.local[s] = NoTagCall]
    /\ UNCHANGED tagsFrame

InitTags ==
    /\ variant = "tags"
    /\ DbInit
    /\ AppInit /\ ChatInit /\ ServiceInit
    /\ google_api_key = TRUE

NextTags ==
    \E s \in Sessions :
       \/ TagRead(s)
       \/ TagUpdate(s)

SpecTags == InitTags /\ [][NextTags]_vars

\* C30: the tags of a document hold no name twice, and when no call is in
\* progress no update that returned True is lost: a name whose last
\* successful call was an add is among the tags and one whose last
\* successful call was a remove is not, the calls of different sessions
\* being on distinct names.
C30_NoLostUpdate ==
    LET list == ParseTags(tags.stored)
    IN  /\ \A i, j \in 1..Len(list) : list[i] = list[j] => i = j
        /\ (\A s \in Sessions : tags.pc[s] = "idle") =>
              \A s \in Sessions :
                 /\ tags.last[s] = "add" => Contains(list, TagName(s))
                 /\ tags.last[s] = "remove" => ~Contains(list, TagName(s))

====
